---- MODULE Spec2Model ----
(***************************************************************************)
(* Model of the parser_lib crate of FlamiDev/soup: the tokenizer           *)
(* (split_words.rs), the token window (vec_window.rs) and the parser       *)
(* combinators (basics.rs, boxes.rs, collections.rs, brackets.rs,          *)
(* separators.rs).                                                         *)
(*                                                                         *)
(* Encoding.  A char is a one-character string, a String is a sequence of  *)
(* chars.  Option<X> is a sequence of length at most one: None is << >>    *)
(* and Some(x) is <<x>>.  A VecWindow carries the vector it borrows.       *)
(***************************************************************************)
EXTENDS Integers, Sequences, FiniteSets, TLC

VARIABLES text, words, pc, call, result

vars == <<text, words, pc, call, result>>

----------------------------------------------------------------------------
(* Option<T> *)

None == << >>

Some(x) == <<x>>

IsSome(o) == Len(o) = 1

Unwrap(o) == o[1]

----------------------------------------------------------------------------
(* char predicates of the Rust standard library, on the modelled alphabet *)

Digits == {"0", "1", "2", "3", "4", "5", "6", "7", "8", "9"}

Lowercase == {"a", "b", "c", "d", "e", "f", "g", "h", "i", "j", "k", "l", "m",
              "n", "o", "p", "q", "r", "s", "t", "u", "v", "w", "x", "y", "z"}

Uppercase == {"A", "B", "C", "D", "E", "F", "G", "H", "I", "J", "K", "L", "M",
              "N", "O", "P", "Q", "R", "S", "T", "U", "V", "W", "X", "Y", "Z"}

Whitespace == {" ", "\t", "\n", "\r"}

is_whitespace(c) == c \in Whitespace

is_numeric(c) == c \in Digits

is_uppercase(c) == c \in Uppercase

is_lowercase(c) == c \in Lowercase

is_alphabetic(c) == c \in Lowercase \cup Uppercase

is_alphanumeric(c) == is_alphabetic(c) \/ is_numeric(c)

----------------------------------------------------------------------------
(* str helpers *)

starts_with(s, c) == Len(s) > 0 /\ s[1] = c

ends_with(s, c) == Len(s) > 0 /\ s[Len(s)] = c

\* position (1-based) of the first occurrence of the two chars a b, 0 if none
FindPair(s, a, b) ==
    IF \E i \in 1..(Len(s) - 1) : s[i] = a /\ s[i + 1] = b
    THEN CHOOSE i \in 1..(Len(s) - 1) :
            /\ s[i] = a /\ s[i + 1] = b
            /\ \A j \in 1..(i - 1) : ~(s[j] = a /\ s[j + 1] = b)
    ELSE 0

\* str::lines(): split on "\n", drop one "\r" before it, no final empty line
RECURSIVE lines(_)
lines(s) ==
    IF Len(s) = 0 THEN << >>
    ELSE IF \E i \in 1..Len(s) : s[i] = "\n"
         THEN LET i == CHOOSE k \in 1..Len(s) :
                          s[k] = "\n" /\ \A j \in 1..(k - 1) : s[j] # "\n"
                  raw == SubSeq(s, 1, i - 1)
                  line == IF ends_with(raw, "\r")
                          THEN SubSeq(raw, 1, Len(raw) - 1) ELSE raw
              IN <<line>> \o lines(SubSeq(s, i + 1, Len(s)))
         ELSE <<s>>

\* line.split_once("//").map_or(line, |(line, _)| line)
StripComment(line) ==
    LET i == FindPair(line, "/", "/")
    IN IF i = 0 THEN line ELSE SubSeq(line, 1, i - 1)

\* line.trim().is_empty()
IsBlank(line) == \A i \in 1..Len(line) : is_whitespace(line[i])

----------------------------------------------------------------------------
(* split_words.rs: Word, WordValue, BracketPair *)

WordValueWord(t) == [tag |-> "Word", text |-> t]

WordValueBrackets(o, in, c) ==
    [tag |-> "Brackets", open |-> o, inner |-> in, close |-> c]

MkWord(v, l, cf, ct) ==
    [value |-> v, line |-> l, column_from |-> cf, column_to |-> ct]

BracketPair(o, c) == [open |-> o, close |-> c]

get_word(word) ==
    IF word.value.tag = "Word" THEN Some(word.value.text) ELSE None

get_brackets(word, open, close) ==
    IF /\ word.value.tag = "Brackets"
       /\ word.value.open = open
       /\ word.value.close = close
    THEN Some(word.value.inner)
    ELSE None

----------------------------------------------------------------------------
(* split_words.rs: TempBrackets *)

TempBracketsNew(brackets) ==
    [root |-> << >>, stack |-> << >>, brackets |-> brackets]

\* .iter().find(..): the first pair of the table whose field f is the value
FindBracket(brackets, f, value) ==
    LET hits == {i \in 1..Len(brackets) : <<brackets[i][f]>> = value}
    IN IF hits = {} THEN None
       ELSE Some(brackets[CHOOSE i \in hits : \A j \in hits : i <= j])

\* level_higher.push(word): the innermost open frame, or the root
PushToTop(tb, word) ==
    IF Len(tb.stack) > 0
    THEN [tb EXCEPT !.stack[Len(tb.stack)].inner = Append(@, word)]
    ELSE [tb EXCEPT !.root = Append(@, word)]

\* one iteration of `while let Some(..) = self.stack.pop()`
PopFrame(tb, column_to) ==
    LET top == tb.stack[Len(tb.stack)]
        rest == [tb EXCEPT !.stack = SubSeq(@, 1, Len(@) - 1)]
        word == MkWord(WordValueBrackets(top.bp.open, top.inner, top.bp.close),
                       top.line, top.column_from, column_to)
    IN PushToTop(rest, word)

RECURSIVE CloseUntil(_, _, _)
CloseUntil(tb, bp, column_to) ==
    IF Len(tb.stack) = 0 THEN tb
    ELSE LET top == tb.stack[Len(tb.stack)]
             next == PopFrame(tb, column_to)
         IN IF top.bp = bp THEN next ELSE CloseUntil(next, bp, column_to)

\* push that keeps a closing bracket with no open frame as a plain word
TempBracketsPushKeepsStrayCloser(tb, line, column_from, column_to, value) ==
    LET opening == FindBracket(tb.brackets, "open", value)
        closing == FindBracket(tb.brackets, "close", value)
    IN IF IsSome(opening)
       THEN [tb EXCEPT !.stack = Append(@, [bp |-> Unwrap(opening),
                                            line |-> line,
                                            column_from |-> column_from,
                                            inner |-> << >>])]
       ELSE IF IsSome(closing) /\ Len(tb.stack) > 0
       THEN CloseUntil(tb, Unwrap(closing), column_to)
       ELSE PushToTop(tb, MkWord(WordValueWord(value),
                                 line, column_from, column_to))

TempBracketsPush(tb, line, column_from, column_to, value) ==
    LET opening == FindBracket(tb.brackets, "open", value)
        closing == FindBracket(tb.brackets, "close", value)
    IN IF IsSome(opening)
       THEN [tb EXCEPT !.stack = Append(@, [bp |-> Unwrap(opening),
                                            line |-> line,
                                            column_from |-> column_from,
                                            inner |-> << >>])]
       ELSE IF IsSome(closing)
       THEN CloseUntil(tb, Unwrap(closing), column_to)
       ELSE PushToTop(tb, MkWord(WordValueWord(value),
                                 line, column_from, column_to))

\* finish that returns the root and drops the frames still open
TempBracketsFinishDropsOpenFrames(tb) == tb.root

RECURSIVE TempBracketsFinish(_)
TempBracketsFinish(tb) ==
    IF Len(tb.stack) = 0 THEN tb.root
    ELSE TempBracketsFinish(PopFrame(tb, 0))

----------------------------------------------------------------------------
(* split_words.rs: split_words *)

BracketChars(brackets) ==
    {brackets[i].open : i \in 1..Len(brackets)}
        \cup {brackets[i].close : i \in 1..Len(brackets)}

\* the body of `for (column_number, character) in line.chars().enumerate()`
\* st = [res, current_text, column_from]
ScanChar(st, bracket_chars, line_number, column_number, character) ==
    LET cur == st.current_text
        last == cur[Len(cur)]
        is_or_was_bracket ==
            last \in bracket_chars \/ character \in bracket_chars
        is_same_word_type ==
            \/ is_alphanumeric(last) = is_alphanumeric(character)
            \/ character = "_"
            \/ last = "_"
        is_number_period ==
            \/ is_numeric(last) /\ character = "."
            \/ last = "." /\ is_numeric(character)
        same_word ==
            is_number_period \/ (~is_or_was_bracket /\ is_same_word_type)
        pushed == TempBracketsPush(st.res, line_number, st.column_from,
                                   column_number, cur)
    IN IF starts_with(cur, "\"")
       THEN IF character = "\"" /\ ~ends_with(cur, "\\")
            THEN [st EXCEPT
                    !.res = TempBracketsPush(st.res, line_number,
                                st.column_from, column_number,
                                Append(cur, character)),
                    !.current_text = << >>]
            ELSE [st EXCEPT !.current_text = Append(cur, character)]
       ELSE IF is_whitespace(character)
       THEN [st EXCEPT !.res = IF Len(cur) > 0 THEN pushed ELSE st.res,
                       !.current_text = << >>]
       ELSE IF Len(cur) = 0
       THEN [st EXCEPT !.column_from = column_number,
                       !.current_text = <<character>>]
       ELSE IF same_word
       THEN [st EXCEPT !.current_text = Append(cur, character)]
       ELSE [st EXCEPT !.res = pushed, !.current_text = <<character>>]

RECURSIVE ScanLine(_, _, _, _, _)
ScanLine(st, bracket_chars, line_number, line, i) ==
    IF i > Len(line) THEN st
    ELSE ScanLine(ScanChar(st, bracket_chars, line_number, i - 1, line[i]),
                  bracket_chars, line_number, line, i + 1)

\* the body of `for (line_number, line) in text.lines().enumerate()`
SplitLine(res, bracket_chars, line_number, raw) ==
    LET line == StripComment(raw)
        st == ScanLine([res |-> res, current_text |-> << >>, column_from |-> 0],
                       bracket_chars, line_number, line, 1)
    IN IF IsBlank(line) THEN res
       ELSE IF Len(st.current_text) > 0
       THEN TempBracketsPush(st.res, line_number, st.column_from,
                             Len(line), st.current_text)
       ELSE st.res

RECURSIVE SplitLines(_, _, _, _)
SplitLines(res, bracket_chars, ls, n) ==
    IF n > Len(ls) THEN res
    ELSE SplitLines(SplitLine(res, bracket_chars, n - 1, ls[n]),
                    bracket_chars, ls, n + 1)

split_words(t, brackets) ==
    TempBracketsFinish(
        SplitLines(TempBracketsNew(brackets), BracketChars(brackets),
                   lines(t), 1))

----------------------------------------------------------------------------
(* vec_window.rs: VecWindow *)

Min(a, b) == IF a <= b THEN a ELSE b

\* usize::MAX, scaled down to the vectors of the model, and the arithmetic
\* of usize as a build without overflow checks computes it
MaxUsize == 15

usize_add(a, b) == (a + b) % (MaxUsize + 1)

usize_sub(a, b) == (a - b) % (MaxUsize + 1)

VecWindow(vec, start_index, end_index) ==
    [vec |-> vec, start_index |-> start_index, end_index |-> end_index]

\* impl From<&Vec<T>> for VecWindow
From(vec) == VecWindow(vec, 0, Len(vec))

is_empty(w) == w.start_index >= w.end_index

size(w) == usize_sub(w.end_index, w.start_index)

\* indices are 0-based in the code, sequences 1-based here
first(w) == IF is_empty(w) THEN None ELSE Some(w.vec[w.start_index + 1])

\* pop_first as the pair of the returned element and the window afterwards
pop_first(w) ==
    IF is_empty(w) THEN [res |-> None, w |-> w]
    ELSE [res |-> Some(w.vec[w.start_index + 1]),
          w |-> [w EXCEPT !.start_index = @ + 1]]

\* VecWindow::new
new(vec, start_index, end_index) ==
    IF start_index > end_index THEN None
    ELSE IF end_index > Len(vec) THEN None
    ELSE Some(VecWindow(vec, start_index, end_index))

\* pop_last as the pair of the returned element and the window afterwards
pop_last(w) ==
    IF is_empty(w) THEN [res |-> None, w |-> w]
    ELSE [res |-> Some(w.vec[w.end_index]),
          w |-> [w EXCEPT !.end_index = @ - 1]]

skip(w, n) ==
    [w EXCEPT !.start_index = Min(usize_add(w.start_index, n), w.end_index)]

take(w, n) ==
    [w EXCEPT !.end_index = Min(usize_add(w.start_index, n), w.end_index)]

shrink_start_to(w, new_start) ==
    IF new_start > w.start_index /\ new_start <= w.end_index
    THEN [w EXCEPT !.start_index = new_start]
    ELSE w

shrink_end_to(w, new_end) ==
    IF new_end < w.end_index /\ new_end >= w.start_index
    THEN [w EXCEPT !.end_index = new_end]
    ELSE w

snip(w, at) ==
    IF at >= size(w) THEN None
    ELSE Some(<<VecWindow(w.vec, w.start_index, usize_add(w.start_index, at)),
                VecWindow(w.vec, usize_add(w.start_index, at), w.end_index)>>)

empty(w) == VecWindow(w.vec, 0, 0)

\* the elements a closure over the elements of the vector can be applied to
Elements(w) == {w.vec[i] : i \in 1..Len(w.vec)}

\* A closure F: Fn(&T) -> bool is a function on Elements(w).
\* the loop of split_including_start from index i on; start is the first
\* index of the segment being collected
RECURSIVE SplitFrom(_, _, _, _, _)
SplitFrom(w, on, start, i, res) ==
    IF i >= w.end_index
    THEN Append(res, VecWindow(w.vec, start, w.end_index))
    ELSE IF on[w.vec[i + 1]]
         THEN SplitFrom(w, on, i, i + 1,
                        Append(res, VecWindow(w.vec, start, i)))
         ELSE SplitFrom(w, on, start, i + 1, res)

\* split_including_start with a loop that also tests the first element
split_including_start_tests_first(w, on) ==
    IF is_empty(w) THEN << >>
    ELSE IF size(w) <= 1 THEN <<w>>
    ELSE SplitFrom(w, on, w.start_index, w.start_index, << >>)

split_including_start(w, on) ==
    IF is_empty(w) THEN << >>
    ELSE IF size(w) <= 1 THEN <<w>>
    ELSE SplitFrom(w, on, w.start_index, w.start_index + 1, << >>)

split(w, on) ==
    LET parts == split_including_start(w, on)
    IN [i \in 1..Len(parts) |->
            IF i = 1 THEN parts[i] ELSE skip(parts[i], 1)]

split_once(w, on) ==
    LET hits == {i \in w.start_index..(w.end_index - 1) : on[w.vec[i + 1]]}
    IN IF hits = {} THEN None
       ELSE LET i == CHOOSE k \in hits : \A j \in hits : k <= j
            IN Some(<<VecWindow(w.vec, w.start_index, i),
                      VecWindow(w.vec, i + 1, w.end_index)>>)

----------------------------------------------------------------------------
(* ParseResult and ParseError.  abort is "none" when the call returns,      *)
(* "panic" when it unwinds and "hang" when it never returns.               *)

ParseError(expected, got) ==
    [expected |-> expected, got |-> got, unlikely |-> FALSE]

ParseResult(item, w, errors) ==
    [item |-> item, words |-> w, errors |-> errors, abort |-> "none"]

Aborted(how, w) ==
    [item |-> None, words |-> w, errors |-> << >>, abort |-> how]

Returned(r) == r.abort = "none"

----------------------------------------------------------------------------
(* Parser types (the Self of an impl Parser) and the values they produce *)

TString == [k |-> "String"]

Ti64 == [k |-> "i64"]

Tf64 == [k |-> "f64"]

Tbool == [k |-> "bool"]

TTypeName == [k |-> "TypeName"]

TValueName == [k |-> "ValueName"]

TUnit == [k |-> "Unit"]

TWord == [k |-> "Word"]

TOption(t) == [k |-> "Option", t |-> t]

TBox(t) == [k |-> "Box", t |-> t]

TVec(t) == [k |-> "Vec", t |-> t]

TNonEmptyVec(t) == [k |-> "NonEmptyVec", t |-> t]

TTuple(a, b) == [k |-> "Tuple", a |-> a, b |-> b]

TSquareBrackets(t) == [k |-> "SquareBrackets", t |-> t]

TCurlyBrackets(t) == [k |-> "CurlyBrackets", t |-> t]

TParentheses(t) == [k |-> "Parentheses", t |-> t]

TSeparatedBy(sep, t) == [k |-> "SeparatedBy", sep |-> sep, t |-> t]

TSeparatedOnce(sep, a, b) ==
    [k |-> "SeparatedOnce", sep |-> sep, a |-> a, b |-> b]

\* separator!(Comma = ","): SEPARATOR as the &str and as its chars
Comma == [name |-> ",", chars |-> <<",">>]

----------------------------------------------------------------------------
(* basics.rs: the leaf parsers *)

\* parse_one: fn(&Word) -> Option<T> is a function on Elements(w)
parse_helper(w, message, parse_one) ==
    IF is_empty(w)
    THEN ParseResult(None, w, <<ParseError(message, None)>>)
    ELSE LET word == Unwrap(first(w))
             res == parse_one[word]
         IN IF IsSome(res)
            THEN ParseResult(res, skip(w, 1), << >>)
            ELSE ParseResult(None, w, <<ParseError(message, Some(word))>>)

\* the closure of String::parse; word[1..word.len() - 1] is the body
StringOne(word) ==
    LET w == get_word(word)
    IN IF IsSome(w) /\ starts_with(Unwrap(w), "\"") /\ ends_with(Unwrap(w), "\"")
       THEN Some([v |-> "String",
                  text |-> SubSeq(Unwrap(w), 2, Len(Unwrap(w)) - 1)])
       ELSE None

\* word[1..word.len() - 1] with word.len() = 1: the slice 1..0 panics
StringSlicePanics(word) ==
    LET w == get_word(word)
    IN IsSome(w) /\ starts_with(Unwrap(w), "\"") /\ ends_with(Unwrap(w), "\"")
       /\ Len(Unwrap(w)) - 1 < 1

StringParse(w) ==
    IF ~is_empty(w) /\ StringSlicePanics(Unwrap(first(w)))
    THEN Aborted("panic", w)
    ELSE parse_helper(w, "<<string>>",
                      [word \in Elements(w) |-> StringOne(word)])

AllDigits(s) == \A i \in 1..Len(s) : is_numeric(s[i])

IsSign(c) == c = "+" \/ c = "-"

\* str::parse::<i64>: an optional sign and at least one digit; a literal of
\* more than 18 digits may overflow and is not accepted here
IsI64Literal(s) ==
    LET digits == IF Len(s) > 0 /\ IsSign(s[1]) THEN Tail(s) ELSE s
    IN Len(digits) > 0 /\ Len(digits) <= 18 /\ AllDigits(digits)

I64One(word) ==
    LET w == get_word(word)
    IN IF IsSome(w) /\ IsI64Literal(Unwrap(w))
       THEN Some([v |-> "i64", text |-> Unwrap(w)])
       ELSE None

I64Parse(w) ==
    parse_helper(w, "<<integer>>", [word \in Elements(w) |-> I64One(word)])

\* str::parse::<f64> on decimal literals: [sign] digits [. digits]
\* [e|E [sign] digits], at least one digit in the mantissa
IsExponent(s) ==
    LET digits == IF Len(s) > 0 /\ IsSign(s[1]) THEN Tail(s) ELSE s
    IN Len(digits) > 0 /\ AllDigits(digits)

IsMantissa(s) ==
    LET dots == {i \in 1..Len(s) : s[i] = "."}
    IN /\ Cardinality(dots) <= 1
       /\ \A i \in 1..Len(s) : is_numeric(s[i]) \/ s[i] = "."
       /\ \E i \in 1..Len(s) : is_numeric(s[i])

IsF64Literal(s) ==
    LET body == IF Len(s) > 0 /\ IsSign(s[1]) THEN Tail(s) ELSE s
        es == {i \in 1..Len(body) : body[i] \in {"e", "E"}}
    IN IF es = {} THEN IsMantissa(body)
       ELSE LET i == CHOOSE k \in es : \A j \in es : k <= j
            IN /\ IsMantissa(SubSeq(body, 1, i - 1))
               /\ IsExponent(SubSeq(body, i + 1, Len(body)))

F64Error(old_words) ==
    ParseResult(None, old_words, <<ParseError("<<f64>>", None)>>)

F64Parse(w) ==
    LET old_words == w
        p1 == pop_first(w)
        p2 == pop_first(p1.w)
        p3 == pop_first(p2.w)
        integer == p1.res
        dot == p2.res
        decimal == p3.res
    IN IF IsSome(integer) /\ IsSome(dot) /\ IsSome(decimal)
       THEN IF get_word(Unwrap(dot)) # Some(<<".">>)
            THEN F64Error(old_words)
            ELSE IF ~IsSome(get_word(Unwrap(integer)))
            THEN F64Error(old_words)
            ELSE IF ~IsSome(get_word(Unwrap(decimal)))
            THEN F64Error(old_words)
            ELSE LET number == Unwrap(get_word(Unwrap(integer))) \o <<".">>
                                 \o Unwrap(get_word(Unwrap(decimal)))
                 IN IF IsF64Literal(number)
                    THEN ParseResult(Some([v |-> "f64", text |-> number]),
                                     p3.w, << >>)
                    ELSE F64Error(old_words)
       ELSE F64Error(old_words)

BoolOne(word) ==
    LET w == get_word(word)
    IN IF w = Some(<<"t", "r", "u", "e">>)
       THEN Some([v |-> "bool", b |-> TRUE])
       ELSE IF w = Some(<<"f", "a", "l", "s", "e">>)
       THEN Some([v |-> "bool", b |-> FALSE])
       ELSE None

BoolParse(w) ==
    parse_helper(w, "<<boolean>>", [word \in Elements(w) |-> BoolOne(word)])

UnitParse(w) == ParseResult(Some([v |-> "Unit"]), w, << >>)

\* impl Parser<Word> for Word: the first token, whatever it is
WordParse(w) == ParseResult(first(w), skip(w, 1), << >>)

TypeNameOne(word) ==
    LET w == get_word(word)
        t == Unwrap(w)
        starts_uppercase == Len(t) > 0 /\ is_uppercase(t[1])
        all_alphabetic == \A i \in 1..Len(t) : is_alphabetic(t[i])
    IN IF IsSome(w) /\ starts_uppercase /\ all_alphabetic
       THEN Some([v |-> "TypeName", text |-> t, line_number |-> word.line,
                  column_from |-> word.column_from,
                  column_to |-> word.column_to])
       ELSE None

TypeNameParse(w) ==
    parse_helper(w, "<<TypeName - PascalCase>>",
                 [word \in Elements(w) |-> TypeNameOne(word)])

ValueNameOne(word) ==
    LET w == get_word(word)
        t == Unwrap(w)
        all_lowercase_or_underscore ==
            \A i \in 1..Len(t) : is_lowercase(t[i]) \/ t[i] = "_"
    IN IF IsSome(w) /\ Len(t) > 0 /\ all_lowercase_or_underscore
       THEN Some([v |-> "ValueName", text |-> t, line_number |-> word.line,
                  column_from |-> word.column_from,
                  column_to |-> word.column_to])
       ELSE None

ValueNameParse(w) ==
    parse_helper(w, "<<ValueName - snake_case>>",
                 [word \in Elements(w) |-> ValueNameOne(word)])

----------------------------------------------------------------------------
(* The combinators.  Parse(T, w) is T::parse(w). *)

RECURSIVE Parse(_, _)

\* boxes.rs
OptionParse(T, w) ==
    LET r == Parse(T, w)
    IN IF ~Returned(r) THEN Aborted(r.abort, w)
       ELSE IF IsSome(r.item)
       THEN ParseResult(Some([v |-> "Option", o |-> r.item]), r.words, r.errors)
       ELSE ParseResult(Some([v |-> "Option", o |-> None]), r.words, << >>)

BoxParse(T, w) ==
    LET r == Parse(T, w)
    IN IF ~Returned(r) THEN Aborted(r.abort, w)
       ELSE ParseResult(r.item, r.words, r.errors)

\* collections.rs: the while loop of Vec<T>::parse.  T::parse is a function
\* of the window, so an iteration that yields an item and hands back the
\* window it was given repeats forever: the call never returns.
RECURSIVE VecLoop(_, _, _, _)
VecLoop(T, w, res, errors) ==
    IF is_empty(w)
    THEN ParseResult(Some([v |-> "Vec", items |-> res]), w, errors)
    ELSE LET r == Parse(T, w)
         IN IF ~Returned(r) THEN Aborted(r.abort, w)
            ELSE IF IsSome(r.item)
            THEN IF r.words = w
                 THEN Aborted("hang", w)
                 ELSE VecLoop(T, r.words, Append(res, Unwrap(r.item)),
                              errors \o r.errors)
            ELSE ParseResult(Some([v |-> "Vec", items |-> res]),
                             r.words, errors)

VecParse(T, w) == VecLoop(T, w, << >>, << >>)

RECURSIVE NonEmptyVecLoop(_, _, _, _)
NonEmptyVecLoop(T, w, res, errors) ==
    IF is_empty(w)
    THEN ParseResult(Some([v |-> "NonEmptyVec", items |-> res]), w, errors)
    ELSE LET r == Parse(T, w)
         IN IF ~Returned(r) THEN Aborted(r.abort, w)
            ELSE IF IsSome(r.item)
            THEN IF r.words = w
                 THEN Aborted("hang", w)
                 ELSE NonEmptyVecLoop(T, r.words, Append(res, Unwrap(r.item)),
                                      errors \o r.errors)
            ELSE IF Len(res) > 0
            THEN ParseResult(Some([v |-> "NonEmptyVec", items |-> res]),
                             r.words, errors)
            ELSE ParseResult(None, r.words, r.errors)

NonEmptyVecParse(T, w) == NonEmptyVecLoop(T, w, << >>, << >>)

\* TupleParse with the errors of both elements kept when T2 fails
TupleParseKeepsFirstErrors(T1, T2, w) ==
    LET r1 == Parse(T1, w)
        r2 == Parse(T2, r1.words)
    IN IF ~Returned(r1) THEN Aborted(r1.abort, w)
       ELSE IF ~Returned(r2) THEN Aborted(r2.abort, w)
       ELSE IF IsSome(r1.item)
       THEN IF IsSome(r2.item)
            THEN ParseResult(Some([v |-> "Tuple", a |-> Unwrap(r1.item),
                                   b |-> Unwrap(r2.item)]),
                             r2.words, r1.errors \o r2.errors)
            ELSE ParseResult(None, r2.words, r1.errors \o r2.errors)
       ELSE ParseResult(None, r2.words, r1.errors)

TupleParse(T1, T2, w) ==
    LET r1 == Parse(T1, w)
        r2 == Parse(T2, r1.words)
    IN IF ~Returned(r1) THEN Aborted(r1.abort, w)
       ELSE IF ~Returned(r2) THEN Aborted(r2.abort, w)
       ELSE IF IsSome(r1.item)
       THEN IF IsSome(r2.item)
            THEN ParseResult(Some([v |-> "Tuple", a |-> Unwrap(r1.item),
                                   b |-> Unwrap(r2.item)]),
                             r2.words, r1.errors \o r2.errors)
            ELSE ParseResult(None, r2.words, r2.errors)
       ELSE ParseResult(None, r2.words, r1.errors)

\* brackets_helper without the check for tokens left in the inner window
brackets_helper_no_leftover_check(w, start, end, name, T) ==
    IF is_empty(w)
    THEN ParseResult(None, w, <<ParseError(start, None)>>)
    ELSE LET first_word == Unwrap(first(w))
             inner == get_brackets(first_word, start, end)
             r == Parse(T, From(Unwrap(inner)))
         IN IF ~IsSome(inner)
            THEN ParseResult(None, w, <<ParseError(start, Some(first_word))>>)
            ELSE IF ~Returned(r) THEN Aborted(r.abort, w)
            ELSE ParseResult(
                    IF IsSome(r.item)
                    THEN Some([v |-> name, x |-> Unwrap(r.item)])
                    ELSE None,
                    pop_first(w).w, r.errors)

\* brackets_helper that advances the outer window by the size of the group
brackets_helper_skips_inner_size(w, start, end, name, T) ==
    IF is_empty(w)
    THEN ParseResult(None, w, <<ParseError(start, None)>>)
    ELSE LET first_word == Unwrap(first(w))
             inner == get_brackets(first_word, start, end)
             r == Parse(T, From(Unwrap(inner)))
         IN IF ~IsSome(inner)
            THEN ParseResult(None, w, <<ParseError(start, Some(first_word))>>)
            ELSE IF ~Returned(r) THEN Aborted(r.abort, w)
            ELSE IF r.errors = << >> /\ IsSome(first(r.words))
            THEN ParseResult(None, w,
                             <<ParseError(end, first(r.words))>>)
            ELSE ParseResult(
                    IF IsSome(r.item)
                    THEN Some([v |-> name, x |-> Unwrap(r.item)])
                    ELSE None,
                    skip(w, Len(Unwrap(inner))), r.errors)

\* brackets.rs
brackets_helper(w, start, end, name, T) ==
    IF is_empty(w)
    THEN ParseResult(None, w, <<ParseError(start, None)>>)
    ELSE LET first_word == Unwrap(first(w))
             inner == get_brackets(first_word, start, end)
             r == Parse(T, From(Unwrap(inner)))
         IN IF ~IsSome(inner)
            THEN ParseResult(None, w, <<ParseError(start, Some(first_word))>>)
            ELSE IF ~Returned(r) THEN Aborted(r.abort, w)
            ELSE IF r.errors = << >> /\ IsSome(first(r.words))
            THEN ParseResult(None, w,
                             <<ParseError(end, first(r.words))>>)
            ELSE ParseResult(
                    IF IsSome(r.item)
                    THEN Some([v |-> name, x |-> Unwrap(r.item)])
                    ELSE None,
                    pop_first(w).w, r.errors)

SquareBracketsParse(T, w) == brackets_helper(w, "[", "]", "SquareBrackets", T)

CurlyBracketsParse(T, w) == brackets_helper(w, "{", "}", "CurlyBrackets", T)

ParenthesesParse(T, w) == brackets_helper(w, "(", ")", "Parentheses", T)

\* SeparatedBy::parse without the error for leftover tokens of a segment
RECURSIVE SeparatedByLoopSilentLeftover(_, _, _, _, _)
SeparatedByLoopSilentLeftover(Sep, T, parts, i, st) ==
    IF i > Len(parts)
    THEN ParseResult(Some([v |-> "SeparatedBy", items |-> st.res]),
                     st.words, st.errors)
    ELSE LET r == Parse(T, parts[i])
             res == IF IsSome(r.item) THEN Append(st.res, Unwrap(r.item))
                    ELSE st.res
             errors == st.errors \o r.errors
         IN IF ~Returned(r) THEN Aborted(r.abort, st.words)
            ELSE SeparatedByLoopSilentLeftover(Sep, T, parts, i + 1,
                    [res |-> res, errors |-> errors,
                     words |-> IF i = Len(parts) THEN r.words ELSE st.words])

\* separators.rs: the for loop of SeparatedBy::parse over the segments
\* st = [res, errors, words]
RECURSIVE SeparatedByLoop(_, _, _, _, _)
SeparatedByLoop(Sep, T, parts, i, st) ==
    IF i > Len(parts)
    THEN ParseResult(Some([v |-> "SeparatedBy", items |-> st.res]),
                     st.words, st.errors)
    ELSE LET r == Parse(T, parts[i])
             no_errors == r.errors = << >>
             res == IF IsSome(r.item) THEN Append(st.res, Unwrap(r.item))
                    ELSE st.res
             errors == st.errors \o r.errors
         IN IF ~Returned(r) THEN Aborted(r.abort, st.words)
            ELSE IF i = Len(parts)
            THEN SeparatedByLoop(Sep, T, parts, i + 1,
                    [res |-> res, errors |-> errors, words |-> r.words])
            ELSE IF ~is_empty(r.words) /\ no_errors
            THEN SeparatedByLoop(Sep, T, parts, i + 1,
                    [res |-> res,
                     errors |-> Append(errors,
                                       ParseError(Sep.name, first(r.words))),
                     words |-> st.words])
            ELSE SeparatedByLoop(Sep, T, parts, i + 1,
                    [res |-> res, errors |-> errors, words |-> st.words])

SeparatedByParse(Sep, T, w) ==
    LET on == [word \in Elements(w) |-> get_word(word) = Some(Sep.chars)]
    IN SeparatedByLoop(Sep, T, split(w, on), 1,
                       [res |-> << >>, errors |-> << >>, words |-> w])

\* SeparatedOnce::parse with the check of the first half left out
SeparatedOnceParseNoFirstCheck(Sep, A, B, w) ==
    LET on == [word \in Elements(w) |-> get_word(word) = Some(Sep.chars)]
        halves == split_once(w, on)
    IN IF halves = None
       THEN ParseResult(None, w, <<ParseError(Sep.name, None)>>)
       ELSE LET r1 == Parse(A, Unwrap(halves)[1])
                r2 == Parse(B, Unwrap(halves)[2])
                errors == r1.errors \o r2.errors
            IN IF ~Returned(r1) THEN Aborted(r1.abort, w)
               ELSE IF ~IsSome(r1.item)
               THEN ParseResult(None, r1.words, r1.errors)
               ELSE IF ~Returned(r2) THEN Aborted(r2.abort, w)
               ELSE IF ~IsSome(r2.item)
               THEN ParseResult(None, r2.words, errors)
               ELSE ParseResult(
                        Some([v |-> "SeparatedOnce",
                              a |-> Unwrap(r1.item), b |-> Unwrap(r2.item)]),
                        r2.words, errors)

\* separators.rs: SeparatedOnce::parse
SeparatedOnceParse(Sep, A, B, w) ==
    LET on == [word \in Elements(w) |-> get_word(word) = Some(Sep.chars)]
        halves == split_once(w, on)
    IN IF halves = None
       THEN ParseResult(None, w, <<ParseError(Sep.name, None)>>)
       ELSE LET r1 == Parse(A, Unwrap(halves)[1])
                r2 == Parse(B, Unwrap(halves)[2])
                errors == r1.errors \o r2.errors
            IN IF ~Returned(r1) THEN Aborted(r1.abort, w)
               ELSE IF ~IsSome(r1.item)
               THEN ParseResult(None, r1.words, r1.errors)
               ELSE IF IsSome(first(r1.words))
               THEN ParseResult(None, r1.words,
                        Append(r1.errors,
                               ParseError(Sep.name, first(r1.words))))
               ELSE IF ~Returned(r2) THEN Aborted(r2.abort, w)
               ELSE IF ~IsSome(r2.item)
               THEN ParseResult(None, r2.words, errors)
               ELSE ParseResult(
                        Some([v |-> "SeparatedOnce",
                              a |-> Unwrap(r1.item), b |-> Unwrap(r2.item)]),
                        r2.words, errors)

----------------------------------------------------------------------------
(* parser_lib_macros: #[derive(Parser)].  A field is the list of its       *)
(* #[text = ".."] attributes and its type; a struct or an enum variant is  *)
(* a list of fields (empty for a unit variant).                            *)

Field(texts, ty) == [texts |-> texts, ty |-> ty]

Variant(ident, fields) == [ident |-> ident, fields |-> fields]

TStruct(name, fields) == [k |-> "Struct", name |-> name, fields |-> fields]

TEnum(name, variants) == [k |-> "Enum", name |-> name, variants |-> variants]

\* parse_struct: first_attr, the first text attribute of the first field
first_attr(fields) ==
    IF Len(fields) = 0 THEN None
    ELSE IF Len(fields[1].texts) = 0 THEN None
    ELSE Some(fields[1].texts[1])

\* parse_field: the checks of the text attributes from attribute j on.
\* ok: every text was found and popped; otherwise err is the error the
\* generated code returns with, and w the window it returns
RECURSIVE parse_attrs(_, _, _)
parse_attrs(texts, j, w) ==
    IF j > Len(texts) THEN [ok |-> TRUE, w |-> w, err |-> << >>]
    ELSE IF /\ IsSome(first(w))
            /\ get_word(Unwrap(first(w))) = Some(texts[j])
         THEN parse_attrs(texts, j + 1, pop_first(w).w)
         ELSE [ok |-> FALSE, w |-> w,
               err |-> <<ParseError(texts[j], first(w))>>]

\* parse_struct: the generated body from field i on; the item of a success
\* is the list of the field values.  parse_to_type::<ty>(words) is ty's
\* parse.
RECURSIVE parse_struct(_, _, _, _, _)
parse_struct(fields, i, w, errors, vals) ==
    IF i > Len(fields) THEN ParseResult(Some(vals), w, errors)
    ELSE LET attrs == parse_attrs(fields[i].texts, 1, w)
             r == Parse(fields[i].ty, attrs.w)
         IN IF ~attrs.ok THEN ParseResult(None, attrs.w, attrs.err)
            ELSE IF ~Returned(r) THEN Aborted(r.abort, w)
            ELSE IF ~IsSome(r.item)
            THEN ParseResult(None, r.words, errors \o r.errors)
            ELSE parse_struct(fields, i + 1, r.words, errors \o r.errors,
                              Append(vals, Unwrap(r.item)))

\* the parse of a derived struct
StructParse(T, w) ==
    LET r == parse_struct(T.fields, 1, w, << >>, << >>)
    IN IF IsSome(r.item)
       THEN [r EXCEPT !.item = Some([v |-> "Struct", name |-> T.name,
                                     fields |-> Unwrap(r.item)])]
       ELSE r

\* Self::parse_<variant> of a derived enum
VariantParse(T, i, w) ==
    LET r == parse_struct(T.variants[i].fields, 1, w, << >>, << >>)
    IN IF IsSome(r.item)
       THEN [r EXCEPT !.item = Some([v |-> "Enum", name |-> T.name,
                                     variant |-> T.variants[i].ident,
                                     fields |-> Unwrap(r.item)])]
       ELSE r

\* the keyword_check of variant i
keyword_check(T, i, w) ==
    LET keyword == first_attr(T.variants[i].fields)
    IN IF IsSome(keyword)
       THEN /\ IsSome(first(w))
            /\ get_word(Unwrap(first(w))) = Some(Unwrap(keyword))
       ELSE TRUE

\* Ambiguity resolution.  The position of an error is the position of the
\* token it was raised on, (0, 0) at the end of the input.
Position(e) ==
    IF IsSome(e.got)
    THEN <<Unwrap(e.got).line, Unwrap(e.got).column_from>>
    ELSE <<0, 0>>

PositionLeq(p, q) == p[1] < q[1] \/ (p[1] = q[1] /\ p[2] <= q[2])

Furthest(ps) == CHOOSE p \in ps : \A q \in ps : PositionLeq(q, p)

\* the furthest position reached among the errors of one branch
BranchPosition(errs) ==
    Furthest({<<0, 0>>} \cup {Position(errs[k]) : k \in 1..Len(errs)})

Unlikely(errs, u) == [k \in 1..Len(errs) |-> [errs[k] EXCEPT !.unlikely = u]]

RECURSIVE FlattenFrom(_, _, _)
FlattenFrom(branches, i, deepest) ==
    IF i > Len(branches) THEN << >>
    ELSE Unlikely(branches[i], BranchPosition(branches[i]) # deepest)
            \o FlattenFrom(branches, i + 1, deepest)

\* flatten_branched_errors: the errors of the branches that reached the
\* furthest position stay as they are, the errors of the others are kept
\* and flagged unlikely
flatten_branched_errors(branches) ==
    FlattenFrom(branches, 1,
        Furthest({<<0, 0>>} \cup
                 {BranchPosition(branches[i]) : i \in 1..Len(branches)}))

\* a derived enum that gives up after the first variant it tried
EnumLoopFirstOnly(T, w, i, errors, tried) ==
    LET first_tried ==
            CHOOSE v \in 1..(Len(T.variants) + 1) :
                /\ v <= Len(T.variants) => keyword_check(T, v, w)
                /\ \A u \in 1..(v - 1) : ~keyword_check(T, u, w)
        r == VariantParse(T, first_tried, w)
    IN IF first_tried > Len(T.variants)
       THEN [result |-> ParseResult(None, w, << >>), tried |-> << >>]
       ELSE IF ~Returned(r)
       THEN [result |-> Aborted(r.abort, w), tried |-> <<first_tried>>]
       ELSE IF IsSome(r.item)
       THEN [result |-> r, tried |-> <<first_tried>>]
       ELSE [result |-> ParseResult(None, w,
                                    flatten_branched_errors(<<r.errors>>)),
             tried |-> <<first_tried>>]

\* the variant_parser_calls of a derived enum from variant i on; errors is
\* the list of the error lists of the failed variants and tried the list of
\* the variants whose parser was called
RECURSIVE EnumLoop(_, _, _, _, _)
EnumLoop(T, w, i, errors, tried) ==
    IF i > Len(T.variants)
    THEN [result |-> ParseResult(None, w, flatten_branched_errors(errors)),
          tried |-> tried]
    ELSE IF ~keyword_check(T, i, w)
    THEN EnumLoop(T, w, i + 1, errors, tried)
    ELSE LET r == VariantParse(T, i, w)
         IN IF ~Returned(r)
            THEN [result |-> Aborted(r.abort, w), tried |-> Append(tried, i)]
            ELSE IF IsSome(r.item)
            THEN [result |-> r, tried |-> Append(tried, i)]
            ELSE EnumLoop(T, w, i + 1, Append(errors, r.errors),
                          Append(tried, i))

\* the parse of a derived enum
EnumParse(T, w) == EnumLoop(T, w, 1, << >>, << >>).result

\* the variants whose parser the parse of a derived enum calls, in order
EnumTried(T, w) == EnumLoop(T, w, 1, << >>, << >>).tried

\* starting_keywords of a derived struct or enum
RECURSIVE VariantKeywords(_, _)
VariantKeywords(variants, i) ==
    IF i > Len(variants) THEN << >>
    ELSE first_attr(variants[i].fields) \o VariantKeywords(variants, i + 1)

starting_keywords(T) ==
    IF T.k = "Struct" THEN first_attr(T.fields)
    ELSE VariantKeywords(T.variants, 1)

----------------------------------------------------------------------------
(* separators.rs: StartTextVec and NonEmptyStartTextVec *)

TStartTextVec(t) == [k |-> "StartTextVec", t |-> t]

TNonEmptyStartTextVec(t) == [k |-> "NonEmptyStartTextVec", t |-> t]

\* StartTextVec::parse with the end of statement error pushed for every
\* part that leaves tokens, whatever its parse reported
RECURSIVE StartTextVecLoopAlwaysReports(_, _, _, _, _)
StartTextVecLoopAlwaysReports(T, parts, i, res, errors) ==
    IF i > Len(parts) THEN [res |-> res, errors |-> errors, abort |-> "none"]
    ELSE LET r == Parse(T, parts[i])
             new_res == IF IsSome(r.item) THEN Append(res, Unwrap(r.item))
                        ELSE res
             new_errors == errors \o r.errors
         IN IF ~Returned(r)
            THEN [res |-> res, errors |-> errors, abort |-> r.abort]
            ELSE IF ~is_empty(r.words)
            THEN StartTextVecLoopAlwaysReports(T, parts, i + 1, new_res,
                    Append(new_errors,
                           ParseError("[end of statement]", first(r.words))))
            ELSE StartTextVecLoopAlwaysReports(T, parts, i + 1, new_res,
                                               new_errors)

\* the for loop of StartTextVec::parse over the parts, from part i on
RECURSIVE StartTextVecLoop(_, _, _, _, _)
StartTextVecLoop(T, parts, i, res, errors) ==
    IF i > Len(parts) THEN [res |-> res, errors |-> errors, abort |-> "none"]
    ELSE LET r == Parse(T, parts[i])
             no_errors == r.errors = << >>
             new_res == IF IsSome(r.item) THEN Append(res, Unwrap(r.item))
                        ELSE res
             new_errors == errors \o r.errors
         IN IF ~Returned(r)
            THEN [res |-> res, errors |-> errors, abort |-> r.abort]
            ELSE IF no_errors /\ ~is_empty(r.words)
            THEN StartTextVecLoop(T, parts, i + 1, new_res,
                    Append(new_errors,
                           ParseError("[end of statement]", first(r.words))))
            ELSE StartTextVecLoop(T, parts, i + 1, new_res, new_errors)

\* the closure of StartTextVec::parse
IsStatementKeyword(statement_keywords, word) ==
    \E k \in 1..Len(statement_keywords) :
        statement_keywords[k] =
            (IF IsSome(get_word(word)) THEN Unwrap(get_word(word)) ELSE << >>)

\* StartTextVec::parse splitting with split, which drops the keywords
StartTextVecParseDropsKeyword(T, w) ==
    LET statement_keywords == starting_keywords(T)
        on == [word \in Elements(w) |->
                  IsStatementKeyword(statement_keywords, word)]
        st == StartTextVecLoop(T, split(w, on), 1, << >>, << >>)
    IN IF st.abort # "none" THEN Aborted(st.abort, w)
       ELSE ParseResult(Some([v |-> "StartTextVec", items |-> st.res]),
                        empty(w), st.errors)

StartTextVecParse(T, w) ==
    LET statement_keywords == starting_keywords(T)
        on == [word \in Elements(w) |->
                  IsStatementKeyword(statement_keywords, word)]
        st == StartTextVecLoop(T, split_including_start(w, on), 1,
                               << >>, << >>)
    IN IF st.abort # "none" THEN Aborted(st.abort, w)
       ELSE ParseResult(Some([v |-> "StartTextVec", items |-> st.res]),
                        empty(w), st.errors)

NonEmptyStartTextVecParse(T, w) ==
    LET r == StartTextVecParse(T, w)
    IN IF ~Returned(r) THEN r
       ELSE IF IsSome(r.item) /\ Unwrap(r.item).items = << >>
       THEN ParseResult(None, r.words, r.errors)
       ELSE IF IsSome(r.item)
       THEN [r EXCEPT !.item = Some([v |-> "NonEmptyStartTextVec",
                                     items |-> Unwrap(r.item).items])]
       ELSE r

Parse(T, w) ==
    CASE T.k = "String" -> StringParse(w)
      [] T.k = "i64" -> I64Parse(w)
      [] T.k = "f64" -> F64Parse(w)
      [] T.k = "bool" -> BoolParse(w)
      [] T.k = "Unit" -> UnitParse(w)
      [] T.k = "Word" -> WordParse(w)
      [] T.k = "TypeName" -> TypeNameParse(w)
      [] T.k = "ValueName" -> ValueNameParse(w)
      [] T.k = "Option" -> OptionParse(T.t, w)
      [] T.k = "Box" -> BoxParse(T.t, w)
      [] T.k = "Vec" -> VecParse(T.t, w)
      [] T.k = "NonEmptyVec" -> NonEmptyVecParse(T.t, w)
      [] T.k = "Tuple" -> TupleParse(T.a, T.b, w)
      [] T.k = "SquareBrackets" -> SquareBracketsParse(T.t, w)
      [] T.k = "CurlyBrackets" -> CurlyBracketsParse(T.t, w)
      [] T.k = "Parentheses" -> ParenthesesParse(T.t, w)
      [] T.k = "SeparatedBy" -> SeparatedByParse(T.sep, T.t, w)
      [] T.k = "SeparatedOnce" -> SeparatedOnceParse(T.sep, T.a, T.b, w)
      [] T.k = "Struct" -> StructParse(T, w)
      [] T.k = "Enum" -> EnumParse(T, w)
      [] T.k = "StartTextVec" -> StartTextVecParse(T.t, w)
      [] T.k = "NonEmptyStartTextVec" -> NonEmptyStartTextVecParse(T.t, w)

----------------------------------------------------------------------------
(* The driver: a source text is tokenized with the bracket table of the    *)
(* tests (brackets.rs BRACKET_PAIRS) and one parser is called on the       *)
(* window over all of its tokens, as the tests and main do.                *)

BRACKET_PAIRS ==
    <<BracketPair("{", "}"), BracketPair("(", ")"), BracketPair("[", "]")>>

\* the lexemes of a text, separated by one space
RECURSIVE Join(_)
Join(ls) ==
    IF Len(ls) = 0 THEN << >>
    ELSE IF Len(ls) = 1 THEN ls[1]
    ELSE ls[1] \o <<" ">> \o Join(Tail(ls))

Texts(lexemes, n) ==
    {Join(ls) : ls \in UNION {[1..k -> lexemes] : k \in 0..n}}

MaxLeafWords == 3

MaxCombWords == 4

LeafLexemes ==
    { <<"1", "2">>, <<"1", ".", "5">>, <<".">>, <<"a", "_", "b">>,
      <<"A", "b">>, <<"t", "r", "u", "e">>, <<"\"", "h", "\"">>, <<"\"">> }

CombLexemes == { <<"1">>, <<"a">>, <<"[">>, <<"]">>, <<",">> }

LeafTypes == {TString, Ti64, Tf64, Tbool, TTypeName, TValueName}

ElemTypes ==
    {Ti64, TValueName, TUnit, TOption(Ti64), TBox(Ti64), TVec(Ti64),
     TTuple(Ti64, Ti64), TTuple(Ti64, TValueName), TSquareBrackets(Ti64),
     TSeparatedBy(Comma, Ti64)}

PairTypes ==
    {Ti64, TValueName, TUnit, TOption(Ti64), TSquareBrackets(Ti64),
     TSeparatedBy(Comma, Ti64)}

NoCall == [T |-> [k |-> "none"], words |-> From(<< >>)]

InitWith(texts) ==
    /\ text \in texts
    /\ words = << >>
    /\ pc = "text"
    /\ call = NoCall
    /\ result = ParseResult(None, From(<< >>), << >>)

\* let words = split_words(input, BRACKET_PAIRS.into());
Tokenize ==
    /\ pc = "text"
    /\ words' = split_words(text, BRACKET_PAIRS)
    /\ pc' = "words"
    /\ UNCHANGED <<text, call, result>>

\* let result = T::parse((&words).into());
Call(T) ==
    /\ pc = "words"
    /\ call' = [T |-> T, words |-> From(words)]
    /\ result' = Parse(T, From(words))
    /\ pc' = "done"
    /\ UNCHANGED <<text, words>>

CallString == Call(TString)

CallI64 == Call(Ti64)

CallF64 == Call(Tf64)

CallBool == Call(Tbool)

CallTypeName == Call(TTypeName)

CallValueName == Call(TValueName)

CallOption == \E T \in ElemTypes : Call(TOption(T))

CallBox == \E T \in ElemTypes : Call(TBox(T))

CallVec == \E T \in ElemTypes : Call(TVec(T))

CallNonEmptyVec == \E T \in ElemTypes : Call(TNonEmptyVec(T))

CallTuple == \E T1 \in PairTypes, T2 \in PairTypes : Call(TTuple(T1, T2))

CallSquareBrackets == \E T \in ElemTypes : Call(TSquareBrackets(T))

CallCurlyBrackets == \E T \in ElemTypes : Call(TCurlyBrackets(T))

CallParentheses == \E T \in ElemTypes : Call(TParentheses(T))

CallSeparatedBy == \E T \in ElemTypes : Call(TSeparatedBy(Comma, T))

CallSeparatedOnce ==
    \E A \in PairTypes, B \in PairTypes : Call(TSeparatedOnce(Comma, A, B))

\* the leaf parsers on texts of literals
InitLeaf == InitWith(Texts(LeafLexemes, MaxLeafWords))

NextLeaf ==
    \/ Tokenize
    \/ CallString
    \/ CallI64
    \/ CallF64
    \/ CallBool
    \/ CallTypeName
    \/ CallValueName

SpecLeaf == InitLeaf /\ [][NextLeaf]_vars

\* the combinators on texts of integers, names, brackets and commas
Init == InitWith(Texts(CombLexemes, MaxCombWords))

Next ==
    \/ Tokenize
    \/ CallOption
    \/ CallBox
    \/ CallVec
    \/ CallNonEmptyVec
    \/ CallTuple
    \/ CallSquareBrackets
    \/ CallCurlyBrackets
    \/ CallParentheses
    \/ CallSeparatedBy
    \/ CallSeparatedOnce

Spec == Init /\ [][Next]_vars

\* the statement parsers on texts of keywords, integers and names
MaxStmtWords == 5

KwInt == <<"i", "n", "t">>

KwLet == <<"l", "e", "t">>

StmtLexemes == {KwInt, KwLet, <<"1">>, <<"a">>}

\* struct FancyInt { #[text = "int"] value: i64 }
FancyInt == TStruct("FancyInt", <<Field(<<KwInt>>, Ti64)>>)

\* the variants the enums given to the derive macro are made of
Variants ==
    { Variant("Pair", <<Field(<<KwInt>>, Ti64), Field(<< >>, Ti64)>>),
      Variant("One", <<Field(<<KwInt>>, Ti64)>>),
      Variant("Named", <<Field(<<KwInt>>, TValueName)>>),
      Variant("Let", <<Field(<<KwLet>>, TValueName)>>),
      Variant("Lit", <<Field(<< >>, Ti64)>>) }

EnumTypes ==
    {TEnum("Statement", <<v1, v2>>) :
        <<v1, v2>> \in {p \in Variants \X Variants : p[1] # p[2]}}

StmtTypes == {FancyInt} \cup EnumTypes

CallStruct == Call(FancyInt)

CallEnum == \E T \in EnumTypes : Call(T)

CallStartTextVec == \E T \in StmtTypes : Call(TStartTextVec(T))

CallNonEmptyStartTextVec == Call(TNonEmptyStartTextVec(FancyInt))

CallWord == Call(TWord)

\* a parser called on the window another parser left: the first n tokens
\* are consumed already
CallRest ==
    \E n \in 1..MaxStmtWords :
        \E T \in {FancyInt, TWord, TStartTextVec(FancyInt),
                  TNonEmptyStartTextVec(FancyInt)} :
            /\ pc = "words"
            /\ n <= Len(words)
            /\ call' = [T |-> T, words |-> skip(From(words), n)]
            /\ result' = Parse(T, skip(From(words), n))
            /\ pc' = "done"
            /\ UNCHANGED <<text, words>>

InitStmt == InitWith(Texts(StmtLexemes, MaxStmtWords))

NextStmt ==
    \/ Tokenize
    \/ CallStruct
    \/ CallEnum
    \/ CallStartTextVec
    \/ CallNonEmptyStartTextVec
    \/ CallWord

SpecStmt == InitStmt /\ [][NextStmt]_vars

\* the statement parsers on the rest of a window
NextRest ==
    \/ Tokenize
    \/ CallRest

SpecRest == InitStmt /\ [][NextRest]_vars

\* sequences of calls on a window over the tokens of a text
MaxWinWords == 3

WinLexemes == {<<"a">>, <<",">>}

\* the arguments of the calls: indices within and beyond the vector, and
\* the largest usize
WinArgs == 0..(MaxWinWords + 1) \cup {MaxUsize}

\* the value a call returned and the window after it
WindowResult(ret, w) ==
    [item |-> ret, words |-> w, errors |-> << >>, abort |-> "none"]

\* a call of a method on the current window; call.words stays the window
\* the sequence of calls started from
WinCall(op, ret, w) ==
    /\ pc = "window"
    /\ call' = [call EXCEPT !.T = op]
    /\ result' = WindowResult(ret, w)
    /\ UNCHANGED <<text, words, pc>>

\* an addition that overflows panics in a build with overflow checks
WinPanic(op) ==
    /\ pc = "window"
    /\ call' = [call EXCEPT !.T = op]
    /\ result' = Aborted("panic", result.words)
    /\ pc' = "done"
    /\ UNCHANGED <<text, words>>

WinNew ==
    \E s \in WinArgs, e \in WinArgs :
        /\ pc = "words"
        /\ IsSome(new(words, s, e))
        /\ call' = [T |-> [k |-> "new"], words |-> Unwrap(new(words, s, e))]
        /\ result' = WindowResult(None, Unwrap(new(words, s, e)))
        /\ pc' = "window"
        /\ UNCHANGED <<text, words>>

WinPopFirst ==
    WinCall([k |-> "pop_first"],
            pop_first(result.words).res, pop_first(result.words).w)

WinPopLast ==
    WinCall([k |-> "pop_last"],
            pop_last(result.words).res, pop_last(result.words).w)

WinSkip ==
    \E n \in WinArgs :
        IF result.words.start_index + n > MaxUsize
        THEN \/ WinCall([k |-> "skip", n |-> n], None, skip(result.words, n))
             \/ WinPanic([k |-> "skip", n |-> n])
        ELSE WinCall([k |-> "skip", n |-> n], None, skip(result.words, n))

WinTake ==
    \E n \in WinArgs :
        IF result.words.start_index + n > MaxUsize
        THEN \/ WinCall([k |-> "take", n |-> n], None, take(result.words, n))
             \/ WinPanic([k |-> "take", n |-> n])
        ELSE WinCall([k |-> "take", n |-> n], None, take(result.words, n))

WinShrinkStartTo ==
    \E n \in WinArgs :
        WinCall([k |-> "shrink_start_to", n |-> n], None,
                shrink_start_to(result.words, n))

WinShrinkEndTo ==
    \E n \in WinArgs :
        WinCall([k |-> "shrink_end_to", n |-> n], None,
                shrink_end_to(result.words, n))

\* snip and split_including_start take the window by value and return
\* windows; the receiver stays the current window.  size() of a window
\* whose end is before its start overflows.
WinSnip ==
    \E at \in WinArgs :
        IF result.words.end_index < result.words.start_index
        THEN \/ WinCall([k |-> "snip", n |-> at],
                        snip(result.words, at), result.words)
             \/ WinPanic([k |-> "snip", n |-> at])
        ELSE WinCall([k |-> "snip", n |-> at],
                     snip(result.words, at), result.words)

WinSplitIncludingStart ==
    \E on \in [Elements(result.words) -> BOOLEAN] :
        WinCall([k |-> "split_including_start", on |-> on],
                split_including_start(result.words, on), result.words)

InitWin == InitWith(Texts(WinLexemes, MaxWinWords))

NextWin ==
    \/ Tokenize
    \/ WinNew
    \/ WinPopFirst
    \/ WinPopLast
    \/ WinSkip
    \/ WinTake
    \/ WinShrinkStartTo
    \/ WinShrinkEndTo
    \/ WinSnip
    \/ WinSplitIncludingStart

SpecWin == InitWin /\ [][NextWin]_vars

\* the tokenizer on texts of single characters, one line each: texts of
\* brackets, words and blanks, and texts of quotes, operators and comments
MaxTokChars == 5

BracketTextChars == {"a", " ", "(", ")", "[", "]"}

StringTextChars == {"a", " ", "\"", "\\", "/", "+", "("}

CharTexts(chars, n) == UNION {[1..k -> chars] : k \in 0..n}

InitTok ==
    InitWith(CharTexts(BracketTextChars, MaxTokChars)
                \cup CharTexts(StringTextChars, MaxTokChars))

NextTok == Tokenize

SpecTok == InitTok /\ [][NextTok]_vars

----------------------------------------------------------------------------
(* Properties *)

Done(k) == pc = "done" /\ call.T.k = k /\ Returned(result)

\* what T::parse does on the window of the call
Inner == Parse(call.T.t, call.words)

\* the window the last attempt of the Vec loop was started on: None when the
\* loop ended on an empty window
RECURSIVE LastAttempt(_, _)
LastAttempt(T, w) ==
    IF is_empty(w) THEN None
    ELSE LET r == Parse(T, w)
         IN IF IsSome(r.item) THEN LastAttempt(T, r.words) ELSE Some(w)

\* the errors of the attempts of the Vec loop that produced an item
RECURSIVE ItemErrors(_, _)
ItemErrors(T, w) ==
    IF is_empty(w) THEN << >>
    ELSE LET r == Parse(T, w)
         IN IF IsSome(r.item) THEN r.errors \o ItemErrors(T, r.words)
            ELSE << >>

\* C1: when an attempt of T fails, Vec<T>::parse stops and returns the window
\* as it was before that attempt started, and none of the attempt's errors.
C1_VecStopsBeforeFailedAttempt ==
    Done("Vec") =>
        LET last == LastAttempt(call.T.t, call.words)
        IN IsSome(last) =>
            /\ result.words = Unwrap(last)
            /\ result.errors = ItemErrors(call.T.t, call.words)

\* C2: Option<T>::parse always returns a value; when T fails the value is
\* Some(None), the window is the input window and there are no errors.
C2_OptionNoneConsumesNothing ==
    Done("Option") =>
        /\ IsSome(result.item)
        /\ ~IsSome(Inner.item) =>
            /\ result.item = Some([v |-> "Option", o |-> None])
            /\ result.words = call.words
            /\ result.errors = << >>

\* C3: NonEmptyVec<T>::parse never returns a value holding zero items; on an
\* empty window it returns None, exactly one error and an empty window.
C3_NonEmptyVecFailsOnZeroItems ==
    Done("NonEmptyVec") =>
        /\ IsSome(result.item) => Len(Unwrap(result.item).items) > 0
        /\ is_empty(call.words) =>
            /\ result.item = None
            /\ Len(result.errors) = 1
            /\ size(result.words) = 0

BracketKinds == {"SquareBrackets", "CurlyBrackets", "Parentheses"}

BracketOpen ==
    [SquareBrackets |-> "[", CurlyBrackets |-> "{", Parentheses |-> "("]

BracketClose ==
    [SquareBrackets |-> "]", CurlyBrackets |-> "}", Parentheses |-> ")"]

DoneBrackets == pc = "done" /\ call.T.k \in BracketKinds /\ Returned(result)

\* the inner tokens of the bracket group the call starts with, if it does
Group ==
    IF is_empty(call.words) THEN None
    ELSE get_brackets(Unwrap(first(call.words)),
                      BracketOpen[call.T.k], BracketClose[call.T.k])

\* what T::parse does on the inner window of that group
InGroup == Parse(call.T.t, From(Unwrap(Group)))

IsIntWord(word) == IsSome(I64One(word))

\* the call is SquareBrackets<i64> on a text like `[1 2]`
OneTwoInSquare ==
    /\ DoneBrackets
    /\ call.T = TSquareBrackets(Ti64)
    /\ Len(words) = 1
    /\ IsSome(Group)
    /\ Len(Unwrap(Group)) = 2
    /\ \A i \in 1..2 : IsIntWord(Unwrap(Group)[i])

OneTwoRejected ==
    OneTwoInSquare =>
        /\ result.item = None
        /\ Len(result.errors) = 1
        /\ size(result.words) > 0

\* C4 (as claimed): a bracket-delimited parser fails whenever T leaves a
\* token of the inner window unconsumed, whether or not T reported errors;
\* `[1 2]` with T = i64 fails with one error and a non-empty window.
C4_BracketsFailOnAnyLeftover ==
    /\ (DoneBrackets /\ IsSome(Group) /\ Returned(InGroup)
            /\ ~is_empty(InGroup.words))
        => result.item = None
    /\ OneTwoRejected

\* C4 (amended): a bracket-delimited parser fails whenever T leaves a token
\* of the inner window unconsumed without reporting an error, and whenever T
\* fails; when T reports errors the outcome is T's, also with tokens left
\* over; `[1 2]` with T = i64 fails with one error and a non-empty window.
C4_BracketsFailOnUnexplainedLeftover ==
    /\ (DoneBrackets /\ IsSome(Group) /\ Returned(InGroup)) =>
        /\ (InGroup.errors = << >> /\ ~is_empty(InGroup.words)) =>
            /\ result.item = None
            /\ Len(result.errors) = 1
        /\ ~IsSome(InGroup.item) => result.item = None
        /\ InGroup.errors # << >> =>
            /\ IsSome(result.item) = IsSome(InGroup.item)
            /\ result.errors = InGroup.errors
    /\ OneTwoRejected

\* C4 witness: `[1 2]` was parsed as SquareBrackets<i64> and rejected
C4_Witness == OneTwoInSquare /\ result.item = None

\* C5: whenever a bracket-delimited parser returns None, the window it
\* returns is the input window.
C5_BracketsFailureKeepsWindow ==
    (DoneBrackets /\ result.item = None) => result.words = call.words

\* digits '.' digits
IsDecimalLiteral(s) ==
    \E i \in 2..(Len(s) - 1) :
        /\ s[i] = "."
        /\ \A j \in 1..Len(s) : j # i => is_numeric(s[j])

\* C6: a literal digits '.' digits is one token, and f64::parse on it
\* succeeds, consumes it completely and returns no errors.
C6_DecimalLiteralParses ==
    IsDecimalLiteral(text) =>
        /\ pc # "text" => Len(words) = 1
        /\ (pc = "done" /\ call.T = Tf64) =>
            /\ Returned(result)
            /\ IsSome(result.item)
            /\ size(result.words) = 0
            /\ result.errors = << >>

\* the shape of the token a leaf parser accepts
Matches(T, word) ==
    CASE T.k = "String" ->
            LET w == get_word(word)
            IN IsSome(w) /\ starts_with(Unwrap(w), "\"")
                         /\ ends_with(Unwrap(w), "\"")
      [] T.k = "i64" -> IsSome(I64One(word))
      [] T.k = "f64" -> IsSome(get_word(word))
                            /\ IsDecimalLiteral(Unwrap(get_word(word)))
      [] T.k = "bool" -> IsSome(BoolOne(word))
      [] T.k = "TypeName" -> IsSome(TypeNameOne(word))
      [] T.k = "ValueName" -> IsSome(ValueNameOne(word))

DoneLeaf == pc = "done" /\ call.T \in LeafTypes

\* C7: a leaf parser on a first token that does not match its shape returns
\* None, the input window and exactly one error; on a matching token it
\* returns the value, the window advanced by one token, and no errors.
C7_LeafMatchOrUntouched ==
    (DoneLeaf /\ ~is_empty(call.words)) =>
        /\ Returned(result)
        /\ IF Matches(call.T, Unwrap(first(call.words)))
           THEN /\ IsSome(result.item)
                /\ result.words = skip(call.words, 1)
                /\ result.errors = << >>
           ELSE /\ result.item = None
                /\ result.words = call.words
                /\ Len(result.errors) = 1

\* C8: the single error of a failed leaf parse has got = the first token of
\* a non-empty window, and got = None only on an empty window.
C8_LeafErrorNamesToken ==
    (DoneLeaf /\ Returned(result) /\ result.item = None) =>
        /\ Len(result.errors) = 1
        /\ result.errors[1].got = first(call.words)

\* what T1 and T2 of a tuple do, left to right
First == Parse(call.T.a, call.words)

Second == Parse(call.T.b, First.words)

\* C9: a tuple returns a value only if both elements succeed, with T1's
\* errors followed by T2's; if element k is the first to fail it returns
\* None with exactly the errors of element k.
C9_TupleErrorsOfFailedElement ==
    Done("Tuple") =>
        /\ IsSome(result.item) = (IsSome(First.item) /\ IsSome(Second.item))
        /\ IsSome(result.item) => result.errors = First.errors \o Second.errors
        /\ ~IsSome(First.item) => result.errors = First.errors
        /\ (IsSome(First.item) /\ ~IsSome(Second.item)) =>
                result.errors = Second.errors

\* C9 witness: T1 succeeded with errors of its own, T2 failed, and the tuple
\* returned None
C9_Witness ==
    /\ Done("Tuple")
    /\ IsSome(First.item)
    /\ First.errors # << >>
    /\ ~IsSome(Second.item)
    /\ result.item = None

\* C10: when T1 fails, the window the tuple returns is the window T1
\* returned: T2 consumes no token of it.
C10_TupleFailedFirstKeepsWindow ==
    (Done("Tuple") /\ ~IsSome(First.item)) => result.words = First.words

----------------------------------------------------------------------------
(* SeparatedBy *)

\* the closure of SeparatedBy::parse on the window of the call
SepOn ==
    [word \in Elements(call.words) |->
        get_word(word) = Some(call.T.sep.chars)]

\* the segments SeparatedBy::parse hands to T
Segments == split(call.words, SepOn)

\* what T::parse does on segment i
InSegment(i) == Parse(call.T.t, Segments[i])

\* segment i holds one well-formed element: T succeeds on it without
\* errors and consumes all of it
WellFormed(i) ==
    /\ ~is_empty(Segments[i])
    /\ Returned(InSegment(i))
    /\ IsSome(InSegment(i).item)
    /\ InSegment(i).errors = << >>
    /\ is_empty(InSegment(i).words)

\* n >= 1 well-formed elements, each followed by a separator
TrailingSep ==
    /\ Len(Segments) >= 2
    /\ is_empty(Segments[Len(Segments)])
    /\ \A i \in 1..(Len(Segments) - 1) : WellFormed(i)

\* C11: SeparatedBy on n >= 1 well-formed elements separated by Sep and
\* followed by one trailing Sep returns Some with exactly the n elements in
\* order, exactly one error and a remaining window of size 0.
C11_TrailingSepOneError ==
    (Done("SeparatedBy") /\ TrailingSep) =>
        /\ result.item =
              Some([v |-> "SeparatedBy",
                    items |-> [i \in 1..(Len(Segments) - 1) |->
                                  Unwrap(InSegment(i).item)]])
        /\ Len(result.errors) = 1
        /\ size(result.words) = 0

\* the values of the segments 1..n in which T succeeded, in order
RECURSIVE SegmentItems(_)
SegmentItems(n) ==
    IF n = 0 THEN << >>
    ELSE IF IsSome(InSegment(n).item)
         THEN Append(SegmentItems(n - 1), Unwrap(InSegment(n).item))
         ELSE SegmentItems(n - 1)

\* the result holds an error expecting the separator at the first token
\* T left in segment i
HasSeparatorError(i) ==
    \E k \in 1..Len(result.errors) :
        result.errors[k] =
            ParseError(call.T.sep.name, first(InSegment(i).words))

\* the non-final segments in which T left tokens unconsumed
LeftoverSegments ==
    {i \in 1..(Len(Segments) - 1) : ~is_empty(InSegment(i).words)}

\* C12 as stated: SeparatedBy always returns Some, the list is the in-order
\* values of exactly the segments in which T succeeded, and every non-final
\* segment in which T leaves tokens unconsumed contributes an error expecting
\* the separator at the first leftover token.
C12_EveryLeftoverSegmentReported ==
    Done("SeparatedBy") =>
        /\ result.item =
              Some([v |-> "SeparatedBy",
                    items |-> SegmentItems(Len(Segments))])
        /\ \A i \in LeftoverSegments : HasSeparatorError(i)

\* C12 amended: the error expecting the separator is contributed by every
\* non-final segment in which T reports no errors but leaves tokens
\* unconsumed; the list is the in-order values of exactly the segments in
\* which T succeeded.
C12_UnexplainedLeftoverSegmentReported ==
    Done("SeparatedBy") =>
        /\ result.item =
              Some([v |-> "SeparatedBy",
                    items |-> SegmentItems(Len(Segments))])
        /\ \A i \in LeftoverSegments :
              InSegment(i).errors = << >> => HasSeparatorError(i)

\* a non-final segment with unexplained leftover tokens next to a segment
\* in which T failed and one in which it succeeded
C12_Witness ==
    /\ Done("SeparatedBy")
    /\ \E i \in LeftoverSegments : InSegment(i).errors = << >>
    /\ \E j \in 1..Len(Segments) : ~IsSome(InSegment(j).item)
    /\ \E j \in 1..Len(Segments) : IsSome(InSegment(j).item)

----------------------------------------------------------------------------
(* SeparatedOnce *)

IsSep(word) == get_word(word) = Some(call.T.sep.chars)

\* the positions of the separator in the window of the call
SepPositions ==
    {i \in call.words.start_index..(call.words.end_index - 1) :
        IsSep(call.words.vec[i + 1])}

FirstSep == CHOOSE i \in SepPositions : \A j \in SepPositions : i <= j

\* the tokens before and after the first occurrence of the separator
Before == VecWindow(call.words.vec, call.words.start_index, FirstSep)

After == VecWindow(call.words.vec, FirstSep + 1, call.words.end_index)

InBefore == Parse(call.T.a, Before)

InAfter == Parse(call.T.b, After)

\* C13 as stated: SeparatedOnce splits at the first occurrence of Sep only
\* and succeeds only if A consumes every token before it and B consumes
\* every token after it; if either half is left with unconsumed tokens the
\* parse returns None.
C13_BothHalvesFullyConsumed ==
    Done("SeparatedOnce") =>
        /\ IsSome(result.item) =>
              /\ SepPositions # {}
              /\ IsSome(InBefore.item) /\ is_empty(InBefore.words)
              /\ IsSome(InAfter.item) /\ is_empty(InAfter.words)
              /\ result.item =
                    Some([v |-> "SeparatedOnce",
                          a |-> Unwrap(InBefore.item),
                          b |-> Unwrap(InAfter.item)])
        /\ (/\ SepPositions # {}
            /\ \/ ~is_empty(InBefore.words)
               \/ ~is_empty(InAfter.words)) => result.item = None

\* C13 amended: SeparatedOnce splits at the first occurrence of Sep only and
\* succeeds exactly if A succeeds and consumes every token before it and B
\* succeeds on the tokens after it; the tokens B leaves unconsumed are the
\* remaining window of the result; if the first half is left with
\* unconsumed tokens the parse returns None.
C13_FirstHalfFullyConsumed ==
    Done("SeparatedOnce") =>
        /\ IsSome(result.item) <=>
              /\ SepPositions # {}
              /\ IsSome(InBefore.item) /\ is_empty(InBefore.words)
              /\ IsSome(InAfter.item)
        /\ IsSome(result.item) =>
              /\ result.item =
                    Some([v |-> "SeparatedOnce",
                          a |-> Unwrap(InBefore.item),
                          b |-> Unwrap(InAfter.item)])
              /\ result.words = InAfter.words

\* a success with a second separator and tokens of the second half left over
C13_Witness ==
    /\ Done("SeparatedOnce")
    /\ IsSome(result.item)
    /\ Cardinality(SepPositions) >= 2
    /\ ~is_empty(result.words)

----------------------------------------------------------------------------
(* StartTextVec *)

\* the word at index i of the window of the call starts a statement
StartsStatement(i) ==
    IsStatementKeyword(starting_keywords(call.T.t), call.words.vec[i + 1])

\* the indices at which a chunk begins: the first token and every later
\* token that is a starting keyword
ChunkStarts ==
    IF is_empty(call.words) THEN {}
    ELSE {call.words.start_index} \cup
         {i \in (call.words.start_index + 1)..(call.words.end_index - 1) :
             StartsStatement(i)}

\* the chunk that begins at s ends where the next one begins
ChunkFrom(s) ==
    LET later == {t \in ChunkStarts : t > s}
    IN VecWindow(call.words.vec, s,
                 IF later = {} THEN call.words.end_index
                 ELSE CHOOSE t \in later : \A u \in later : t <= u)

InChunk(s) == Parse(call.T.t, ChunkFrom(s))

\* the values of the chunks beginning at index i or later in which T
\* succeeded, in order
RECURSIVE ChunkItems(_)
ChunkItems(i) ==
    IF i >= call.words.end_index THEN << >>
    ELSE IF i \in ChunkStarts /\ IsSome(InChunk(i).item)
         THEN <<Unwrap(InChunk(i).item)>> \o ChunkItems(i + 1)
         ELSE ChunkItems(i + 1)

\* the text `int 1 int 1 int`: two statements and an incomplete third
TwoStatementsAndAHalf ==
    /\ text = Join(<<KwInt, <<"1">>, KwInt, <<"1">>, KwInt>>)
    /\ call.T = TStartTextVec(FancyInt)

\* C14: StartTextVec parses each keyword-started chunk independently: it
\* always returns Some, the list holds one item for every chunk whose T
\* parse succeeded, in order, whatever happened in the chunks before, and
\* the remaining window has size 0; two complete statements followed by an
\* incomplete one yield two items and exactly one error.
C14_ChunksParsedIndependently ==
    Done("StartTextVec") =>
        /\ result.item =
              Some([v |-> "StartTextVec",
                    items |-> ChunkItems(call.words.start_index)])
        /\ size(result.words) = 0
        /\ TwoStatementsAndAHalf =>
              /\ Len(Unwrap(result.item).items) = 2
              /\ Len(result.errors) = 1

\* a failed chunk followed by a chunk that was parsed
C14_Witness ==
    /\ Done("StartTextVec")
    /\ \E s \in ChunkStarts, t \in ChunkStarts :
          /\ s < t
          /\ ~IsSome(InChunk(s).item)
          /\ IsSome(InChunk(t).item)

\* the chunk beginning at s was parsed without errors and left tokens
UnexplainedTail(s) ==
    InChunk(s).errors = << >> /\ ~is_empty(InChunk(s).words)

\* the errors of the chunks beginning at index i or later, in order: the
\* errors of T's parse, followed by one end of statement error at the first
\* leftover token when the parse reported none and left tokens
RECURSIVE ChunkErrors(_)
ChunkErrors(i) ==
    IF i >= call.words.end_index THEN << >>
    ELSE IF i \in ChunkStarts
         THEN InChunk(i).errors
              \o (IF UnexplainedTail(i)
                  THEN <<ParseError("[end of statement]",
                                    first(InChunk(i).words))>>
                  ELSE << >>)
              \o ChunkErrors(i + 1)
         ELSE ChunkErrors(i + 1)

\* C15: in StartTextVec every chunk whose T parse reports no errors but
\* leaves tokens unconsumed gets exactly one appended error, expected = end
\* of statement and got = the first leftover token; a chunk whose parse
\* reported errors gets no such error; the following chunks are parsed in
\* both cases.
C15_EndOfStatementError ==
    Done("StartTextVec") =>
        result.errors = ChunkErrors(call.words.start_index)

\* a chunk with an unexplained tail followed by a chunk that failed with
\* errors of its own and left tokens
C15_Witness ==
    /\ Done("StartTextVec")
    /\ \E s \in ChunkStarts, t \in ChunkStarts :
          /\ s < t
          /\ UnexplainedTail(s)
          /\ InChunk(t).errors # << >>
          /\ ~is_empty(InChunk(t).words)

----------------------------------------------------------------------------
(* Derived enums *)

\* what the parser of variant i does on the window of the call
Branch(i) == VariantParse(call.T, i, call.words)

\* the index of the token at which variant i stopped
FailsAt(i) == Branch(i).words.start_index

\* the call of a derived enum failed after exactly its two variants failed
TwoFailedVariants ==
    /\ pc = "done" /\ call.T.k = "Enum" /\ Returned(result)
    /\ result.item = None
    /\ EnumTried(call.T, call.words) = <<1, 2>>

\* C16: flatten_branched_errors marks the deepest branch as authoritative:
\* of two failed variants of which A fails one token later in the input than
\* B, on a token or at the end of the input, every error of B is returned
\* with unlikely = true and every error of A with unlikely = false.
C16_DeepestBranchAuthoritative ==
    TwoFailedVariants =>
        \A A \in {1, 2} :
            FailsAt(A) = FailsAt(3 - A) + 1 =>
                result.errors =
                    Unlikely(Branch(1).errors, A # 1)
                    \o Unlikely(Branch(2).errors, A # 2)

\* the variants of the enum of the call
VariantIndices == 1..Len(call.T.variants)

\* the variants of S in declaration order, from variant i on
RECURSIVE InOrder(_, _)
InOrder(S, i) ==
    IF i > Len(call.T.variants) THEN << >>
    ELSE (IF i \in S THEN <<i>> ELSE << >>) \o InOrder(S, i + 1)

\* the variants whose parser succeeds on the window of the call
Succeeding == {i \in VariantIndices : IsSome(Branch(i).item)}

FirstOf(S) == CHOOSE i \in S : \A j \in S : i <= j

DoneEnum == pc = "done" /\ call.T.k = "Enum" /\ Returned(result)

KeywordMatches ==
    {i \in VariantIndices : keyword_check(call.T, i, call.words)}

----------------------------------------------------------------------------
(* VecWindow *)

\* the window the calls are made on: [s, e) with s <= e
ValidWindow(w) == w.start_index <= w.end_index /\ w.end_index <= Len(w.vec)

\* w is a sub-range of the window o
SubRange(w, o) ==
    /\ o.start_index <= w.start_index
    /\ w.start_index <= w.end_index
    /\ w.end_index <= o.end_index

\* C18: window monotonicity: after any finite sequence of skip, take,
\* pop_first, pop_last, shrink_start_to and shrink_end_to calls with
\* arbitrary arguments from a valid window [s, e), the resulting window
\* [s', e') satisfies s <= s' <= e' <= e, and size() never increases across
\* a single call.
C18_WindowMonotonicity ==
    /\ [](pc = "window" => SubRange(result.words, call.words))
    /\ [][(pc = "window" /\ pc' = "window") =>
            result'.words.end_index - result'.words.start_index
                <= result.words.end_index - result.words.start_index]_vars

\* C19: snip(at) on a window [start, end) returns the pair of windows
\* ([start, start + at), [start + at, end)) for every at with
\* 0 <= at <= size(), including at = size() and at = 0 on an empty window.
C19_SnipAtEveryPoint ==
    (/\ pc = "window" /\ call.T.k = "snip"
     /\ ValidWindow(result.words)
     /\ call.T.n <= result.words.end_index - result.words.start_index) =>
        result.item =
            Some(<<VecWindow(result.words.vec, result.words.start_index,
                             result.words.start_index + call.T.n),
                   VecWindow(result.words.vec,
                             result.words.start_index + call.T.n,
                             result.words.end_index)>>)

\* the segments a call of split_including_start on a valid window returned
DoneSplit ==
    /\ pc = "window" /\ call.T.k = "split_including_start"
    /\ ValidWindow(result.words)

\* the word at index i matches the predicate of the call
MatchesAt(i) == call.T.on[result.words.vec[i + 1]]

\* C20: split_including_start(p) partitions the window: the segments are
\* non-empty, contiguous and in order, their concatenation is exactly the
\* input window, every segment after the first begins with a token matching
\* p, and no token matching p occurs at a non-first position of a segment.
C20_SplitIncludingStartPartitions ==
    DoneSplit =>
        LET w == result.words
            segs == result.item
            n == Len(segs)
        IN /\ n = 0 <=> w.start_index = w.end_index
           /\ n > 0 => /\ segs[1].start_index = w.start_index
                       /\ segs[n].end_index = w.end_index
           /\ \A k \in 1..n :
                 /\ segs[k].vec = w.vec
                 /\ segs[k].start_index < segs[k].end_index
                 /\ k > 1 => /\ segs[k].start_index = segs[k - 1].end_index
                             /\ MatchesAt(segs[k].start_index)
                 /\ \A i \in (segs[k].start_index + 1)..(segs[k].end_index - 1)
                       : ~MatchesAt(i)

\* a split into several segments of a window whose first token matches the
\* predicate too
C20_Witness ==
    /\ DoneSplit
    /\ Len(result.item) >= 2
    /\ MatchesAt(result.words.start_index)
    /\ \E k \in 1..Len(result.item) : size(result.item[k]) >= 2

----------------------------------------------------------------------------
(* split_words *)

Tokenized == pc = "words"

\* the plain words of a token tree, at every depth, in source order
RECURSIVE PlainWords(_)
PlainWords(ws) ==
    IF Len(ws) = 0 THEN << >>
    ELSE (IF Head(ws).value.tag = "Word" THEN <<Head(ws)>>
          ELSE PlainWords(Head(ws).value.inner))
         \o PlainWords(Tail(ws))

\* the bracket groups of a token tree, at every depth
RECURSIVE Groups(_)
Groups(ws) ==
    IF Len(ws) = 0 THEN << >>
    ELSE (IF Head(ws).value.tag = "Brackets"
          THEN <<Head(ws)>> \o Groups(Head(ws).value.inner)
          ELSE << >>)
         \o Groups(Tail(ws))

Range(s) == {s[i] : i \in 1..Len(s)}

\* C21: in every token tree split_words returns, at every depth, no plain
\* word has a text equal to a configured opening or closing bracket
\* character and the (open, close) of every bracket group is a configured
\* pair, whatever brackets of the text are unmatched, mismatched or unclosed.
C21_BracketsResolved ==
    Tokenized =>
        /\ \A word \in Range(PlainWords(words)) :
              \A c \in BracketChars(BRACKET_PAIRS) : word.value.text # <<c>>
        /\ \A group \in Range(Groups(words)) :
              BracketPair(group.value.open, group.value.close)
                  \in Range(BRACKET_PAIRS)

\* a text with a closer that matches no open frame and a frame that is
\* never closed
C21_Witness ==
    /\ Tokenized
    /\ text = <<")", "(", "a", "]", "[">>
    /\ Len(Groups(words)) = 2


\* a token tree without its positions
RECURSIVE Shape(_)
Shape(ws) ==
    [i \in 1..Len(ws) |->
        IF ws[i].value.tag = "Word" THEN ws[i].value.text
        ELSE [open |-> ws[i].value.open,
              inner |-> Shape(ws[i].value.inner),
              close |-> ws[i].value.close]]

TreeOf(t) == Shape(split_words(t, BRACKET_PAIRS))

\* the pairs of the frames that are open after the text t, outermost first
OpenFrames(t) ==
    LET tb == SplitLines(TempBracketsNew(BRACKET_PAIRS),
                         BracketChars(BRACKET_PAIRS), lines(t), 1)
    IN [i \in 1..Len(tb.stack) |-> tb.stack[i].bp]

\* the frames that match the closer c, by their depth
MatchingFrames(frames, c) == {k \in 1..Len(frames) : <<frames[k].close>> = <<c>>}

\* the closers of the frames above depth k, innermost first
ClosersAbove(frames, k) ==
    [j \in 1..(Len(frames) - k) |-> frames[Len(frames) + 1 - j].close]

BracketText == Range(text) \subseteq BracketTextChars

IsCloser(c) == IsSome(FindBracket(BRACKET_PAIRS, "close", <<c>>))

Upto(i) == SubSeq(text, 1, i - 1)

Beyond(i) == SubSeq(text, i + 1, Len(text))

\* the closer at i matches an open frame that is not the innermost one
ClosesOuterFrame(i) ==
    LET frames == OpenFrames(Upto(i))
        hits == MatchingFrames(frames, text[i])
    IN /\ IsCloser(text[i])
       /\ hits # {}
       /\ Len(frames) \notin hits

\* the closer at i matches no open frame, and some frame is open
ClosesNoFrame(i) ==
    LET frames == OpenFrames(Upto(i))
    IN /\ IsCloser(text[i])
       /\ Len(frames) > 0
       /\ MatchingFrames(frames, text[i]) = {}

\* the text with the closers of the inner frames written before the one at i
WithInnerClosers(i) ==
    LET frames == OpenFrames(Upto(i))
        hits == MatchingFrames(frames, text[i])
        k == CHOOSE h \in hits : \A g \in hits : g <= h
    IN Upto(i) \o ClosersAbove(frames, k) \o <<text[i]>> \o Beyond(i)

\* the text without the closer at i
WithoutCloser(i) == Upto(i) \o <<" ">> \o Beyond(i)

\* C22: a closing bracket that matches an outer open frame closes the frames
\* nested inside it as if their own closers were written before it, and a
\* closing bracket that matches no open frame is ignored and closes no
\* frame, at every position of the text.
C22_IncorrectClosersIgnored ==
    (Tokenized /\ BracketText) =>
        \A i \in 1..Len(text) :
            /\ ClosesOuterFrame(i) =>
                  Shape(words) = TreeOf(WithInnerClosers(i))
            /\ ClosesNoFrame(i) =>
                  Shape(words) = TreeOf(WithoutCloser(i))


Quote == "\""

\* no double quote of s is unescaped, and s does not end in a backslash
NoClosingQuote(s) ==
    /\ \A j \in 1..Len(s) : s[j] = Quote => (j > 1 /\ s[j - 1] = "\\")
    /\ (Len(s) > 0 => s[Len(s)] # "\\")

\* text[i] opens a string that text[j] closes: the first quote of the line,
\* outside a comment, and the next quote not preceded by a backslash
QuotedString(i, j) ==
    /\ i < j
    /\ text[i] = Quote
    /\ text[j] = Quote
    /\ Quote \notin Range(Upto(i))
    /\ FindPair(Upto(i), "/", "/") = 0
    /\ NoClosingQuote(SubSeq(text, i + 1, j - 1))

\* C23: a quoted string, from its opening double quote to the next double
\* quote not preceded by a backslash, is one token whose text is these
\* characters verbatim, whatever the characters inside it and whatever
\* character stands before the opening quote.
C23_QuotedStringOneToken ==
    Tokenized =>
        \A i, j \in 1..Len(text) :
            QuotedString(i, j) =>
                \E word \in Range(PlainWords(words)) :
                    word.value.text = SubSeq(text, i, j)


IsOpener(c) == IsSome(FindBracket(BRACKET_PAIRS, "open", <<c>>))

\* the tokenizer's stack at the end of the input, before finish
AtEndOfInput ==
    SplitLines(TempBracketsNew(BRACKET_PAIRS), BracketChars(BRACKET_PAIRS),
               lines(text), 1)

\* the groups that are closed inside the open frames k.. of the stack
RECURSIVE GroupsInFrames(_, _)
GroupsInFrames(stack, k) ==
    IF k > Len(stack) THEN 0
    ELSE Len(Groups(stack[k].inner)) + GroupsInFrames(stack, k + 1)

\* C24: split_words returns a token tree for every text, and every bracket
\* frame that was opened is a bracket group of the tree: the frames still
\* open at the end of the input are emitted, none is left or discarded.
C24_EveryFrameEmitted ==
    Tokenized =>
        /\ Len(Groups(words)) =
              Len(Groups(AtEndOfInput.root))
                  + GroupsInFrames(AtEndOfInput.stack, 1)
                  + Len(AtEndOfInput.stack)
        /\ BracketText =>
              Len(Groups(words)) =
                  Cardinality({i \in 1..Len(text) : IsOpener(text[i])})

\* two frames are open at the end of the input, one was closed before
C24_Witness ==
    /\ Tokenized
    /\ text = <<"(", ")", "(", "[", "a">>
    /\ Len(AtEndOfInput.stack) = 2
    /\ Len(Groups(words)) = 3


\* the characters of the line between the columns of a token
Span(word) == SubSeq(text, word.column_from + 1, word.column_to)

\* C30: for every plain token of a line, column_from is the 0-based column
\* of its first character and column_to is one past the column of its last
\* character, also for tokens adjacent without a blank and for quoted
\* strings; the spans of the tokens of a line are then disjoint and in
\* source order.
C30_ColumnsSpanToken ==
    Tokenized =>
        LET plain == PlainWords(words)
        IN /\ \A k \in 1..Len(plain) :
                 /\ plain[k].column_to - plain[k].column_from
                        = Len(plain[k].value.text)
                 /\ Span(plain[k]) = plain[k].value.text
           /\ \A k \in 1..(Len(plain) - 1) :
                 plain[k].column_to <= plain[k + 1].column_from


----------------------------------------------------------------------------
(* brackets.rs: the window of a successful call *)

\* the window w advanced by one token
AdvancedByOne(w) == [w EXCEPT !.start_index = @ + 1]

\* the call is SquareBrackets<i64> on the tokens of `[1]`
OneInSquare ==
    /\ DoneBrackets
    /\ call.T = TSquareBrackets(Ti64)
    /\ Len(words) = 1
    /\ IsSome(Group)
    /\ Len(Unwrap(Group)) = 1
    /\ get_word(Unwrap(Group)[1]) = Some(<<"1">>)

\* C25: a bracket-delimited parser that succeeds returns the input window
\* advanced by exactly one token, the whole group, however many tokens the
\* group holds; on `[1]` with T = i64 the result is SquareBrackets(1) with
\* nothing remaining and no errors.
C25_BracketsAdvanceByOneToken ==
    /\ (DoneBrackets /\ IsSome(result.item)) =>
          result.words = AdvancedByOne(call.words)
    /\ OneInSquare =>
          /\ result.item = Some([v |-> "SquareBrackets",
                                 x |-> [v |-> "i64", text |-> <<"1">>]])
          /\ size(result.words) = 0
          /\ result.errors = << >>

\* a group of two tokens is parsed: the window moves by one token, not two
C25_Witness ==
    /\ DoneBrackets
    /\ IsSome(result.item)
    /\ IsSome(Group)
    /\ Len(Unwrap(Group)) = 2
    /\ result.errors = << >>
    /\ result.words.start_index = call.words.start_index + 1


----------------------------------------------------------------------------
(* collections.rs: termination of the loops *)

\* C26: Vec<T>::parse and NonEmptyVec<T>::parse terminate on every finite
\* window for every element parser T, also one that succeeds without
\* consuming a token: no iteration of the loop leaves the window as it was
\* and goes on.
C26_VecLoopsTerminate ==
    (pc = "done" /\ call.T.k \in {"Vec", "NonEmptyVec"}) =>
        result.abort # "hang"


----------------------------------------------------------------------------
(* basics.rs: String on the tokens of split_words *)

\* C27: String::parse panics on no token that split_words can produce: on
\* every token, an unterminated string of one double quote included, it
\* returns a value, or None with an error.
C27_StringNeverPanics ==
    (pc = "done" /\ call.T = TString) => result.abort # "panic"


----------------------------------------------------------------------------
(* errors of a failure, windows of a return *)

\* C28: every failure is explained: whenever a parser of the library
\* returns None the error list it returns is not empty, also on an empty
\* input window.
C28_FailureHasErrors ==
    (pc = "done" /\ Returned(result) /\ result.item = None) =>
        result.errors # << >>

\* C29: the remaining window a combinator returns, on success or failure, is
\* a sub-range of the window it was given, s <= s' <= e' <= e, also the
\* window StartTextVec returns through VecWindow::empty.
C29_RemainingWindowInsideInput ==
    (pc = "done" /\ Returned(result)) => SubRange(result.words, call.words)

====
